---- MODULE Spec2Model ----
(***************************************************************************)
(* Model of the GNOME monitor switcher scripts:                            *)
(*   monitor-switch.py  - interactive menu (monitor -> mode -> confirm)    *)
(*   gdctl-instant.py   - one-shot commands (single, dual, triple, ...)    *)
(* Strings that the code parses (resolutions "WxH", refresh rates "I.F")   *)
(* are sequences of one-character strings, so that int(), float() and      *)
(* string comparison are computed and not assumed.                         *)
(***************************************************************************)
EXTENDS Integers, Sequences, FiniteSets, TLC

VARIABLES
    modes,        \* Monitor.modes of the monitor under ranking (list of MonitorMode)
    limit,        \* the limit argument of the last get_top_modes call
    result,       \* the list returned by the last get_top_modes call
    ranked,       \* TRUE once get_top_modes has returned
    pc,           \* where the user is: the shell, a prompt of the menu, or a finished run
    prog,         \* the program of the current or last run, with its command token
    monitors,     \* monitor-switch.py: the list returned by parse_monitors
    selected_monitor, \* monitor-switch.py: index of selected_monitor in monitors, 0 if none
    show_all,     \* display_refresh_rate_menu: show_all
    selected_mode,    \* monitor-switch.py: selected_mode
    backups,      \* names (capture times) of the files gdctl-backup-*.txt in the backup directory
    clock,        \* int(time.time()) as read for the newest backup file
    applies,      \* number of applies started since the backup directory was empty
    log,          \* commands run and results printed by the current operation
    exit_code,    \* exit status of the last run, -1 while none has ended
    connected,    \* gdctl-instant.py: connected_monitors as last read
    notice,       \* the last inline notice of the menu
    gdctl_output, \* monitor-switch.py: the lines of "gdctl show --modes" given to parse_monitors
    config_output,    \* monitor-switch.py: the lines of "gdctl show" read by parse_monitors
    parsed        \* the outcome of the last parse_monitors call

rvars == <<modes, limit, result, ranked>>
svars == <<pc, prog, monitors, selected_monitor, show_all, selected_mode,
           backups, clock, applies, log, exit_code, connected, notice>>
pvars == <<gdctl_output, config_output, parsed>>
vars == <<rvars, svars, pvars>>

\* Optional[MonitorMode] = None
NoMode == [resolution |-> <<>>, refresh_rate |-> <<>>]

\* parse_monitors has not been called
NoParse == [raised |-> FALSE, warning |-> FALSE, monitors |-> <<>>, called |-> FALSE]
ParserIdle ==
    /\ gdctl_output = <<>>
    /\ config_output = <<>>
    /\ parsed = NoParse

\* no program has run yet and the backup directory is empty
SystemIdle ==
    /\ pc = "Shell"
    /\ prog = [script |-> "none", command |-> ""]
    /\ monitors = <<>>
    /\ selected_monitor = 0
    /\ show_all = FALSE
    /\ selected_mode = NoMode
    /\ backups = {}
    /\ clock = 0
    /\ applies = 0
    /\ log = <<>>
    /\ exit_code = -1
    /\ connected = {}
    /\ notice = "none"

(***************************************************************************)
(* Bounds of the model                                                     *)
(***************************************************************************)
MaxExtraModes == 2   \* modes appended to a starting mode list
MaxLimit == 3        \* limits 0..MaxLimit are tried besides the default

(***************************************************************************)
(* Characters and strings                                                  *)
(***************************************************************************)
DigitChars == <<"0", "1", "2", "3", "4", "5", "6", "7", "8", "9">>

\* ord(c) for the characters that occur in mode strings
Ord(c) ==
    CASE c = "." -> 46
      [] c = "0" -> 48 [] c = "1" -> 49 [] c = "2" -> 50 [] c = "3" -> 51
      [] c = "4" -> 52 [] c = "5" -> 53 [] c = "6" -> 54 [] c = "7" -> 55
      [] c = "8" -> 56 [] c = "9" -> 57
      [] c = "@" -> 64
      [] c = "x" -> 120

\* str(n) for a natural number
RECURSIVE Digits(_)
Digits(n) ==
    IF n < 10 THEN <<DigitChars[n + 1]>>
    ELSE Digits(n \div 10) \o <<DigitChars[(n % 10) + 1]>>

\* int(s) for a non-empty string of decimal digits
RECURSIVE IntOf(_)
IntOf(s) ==
    IF Len(s) = 0 THEN 0
    ELSE IntOf(SubSeq(s, 1, Len(s) - 1)) * 10 + (Ord(s[Len(s)]) - 48)

\* index of the first occurrence of character c in s, 0 when absent
RECURSIVE Find(_, _, _)
Find(s, c, i) ==
    IF i > Len(s) THEN 0
    ELSE IF s[i] = c THEN i
    ELSE Find(s, c, i + 1)

\* Python's a < b on strings: lexicographic by code point, a proper prefix is smaller
RECURSIVE StrLess(_, _)
StrLess(a, b) ==
    IF Len(b) = 0 THEN FALSE
    ELSE IF Len(a) = 0 THEN TRUE
    ELSE IF Ord(a[1]) # Ord(b[1]) THEN Ord(a[1]) < Ord(b[1])
    ELSE StrLess(Tail(a), Tail(b))

Pow10(k) == CASE k = 0 -> 1 [] k = 1 -> 10 [] k = 2 -> 100 [] k = 3 -> 1000

\* float(rate) in thousandths of a hertz; the rates of the tool carry at most
\* three fractional digits
FloatOf(rate) ==
    LET dot  == Find(rate, ".", 1)
        ip   == SubSeq(rate, 1, dot - 1)
        frac == SubSeq(rate, dot + 1, Len(rate))
    IN  IntOf(ip) * 1000 + IntOf(frac) * Pow10(3 - Len(frac))

\* width, height = map(int, resolution.split('x'))
Width(resolution) == IntOf(SubSeq(resolution, 1, Find(resolution, "x", 1) - 1))
Height(resolution) ==
    IntOf(SubSeq(resolution, Find(resolution, "x", 1) + 1, Len(resolution)))
PixelCount(resolution) == Width(resolution) * Height(resolution)

(***************************************************************************)
(* MonitorMode                                                             *)
(***************************************************************************)
MonitorMode(resolution, refresh_rate) ==
    [resolution |-> resolution, refresh_rate |-> refresh_rate]

\* MonitorMode.mode_string
mode_string(m) == m.resolution \o <<"@">> \o m.refresh_rate

MIN_PIXELS == 1280 * 720

(***************************************************************************)
(* Monitor.get_modes_by_resolution: a dict keeps insertion order, so the   *)
(* grouping is a sequence of [resolution, modes] entries in order of first *)
(* appearance; each group is sorted by float(refresh_rate), highest first, *)
(* by a stable sort.                                                       *)
(***************************************************************************)
\* one step of a stable descending insertion: m goes after every element whose
\* key is >= its own
RECURSIVE InsertDesc(_, _)
InsertDesc(sorted, m) ==
    IF Len(sorted) = 0 THEN <<m>>
    ELSE IF FloatOf(Head(sorted).refresh_rate) >= FloatOf(m.refresh_rate)
         THEN <<Head(sorted)>> \o InsertDesc(Tail(sorted), m)
         ELSE <<m>> \o sorted

\* a grouping that leaves the rates in the order of the tool
SortByRateDesc_unsorted(ms) == ms

RECURSIVE SortByRateDesc(_)
SortByRateDesc(ms) ==
    IF Len(ms) = 0 THEN <<>>
    ELSE InsertDesc(SortByRateDesc(SubSeq(ms, 1, Len(ms) - 1)), ms[Len(ms)])

RECURSIVE GroupAppend(_, _)
GroupAppend(grouped, m) ==
    IF Len(grouped) = 0 THEN <<[resolution |-> m.resolution, modes |-> <<m>>]>>
    ELSE IF Head(grouped).resolution = m.resolution
         THEN <<[Head(grouped) EXCEPT !.modes = Append(@, m)]>> \o Tail(grouped)
         ELSE <<Head(grouped)>> \o GroupAppend(Tail(grouped), m)

RECURSIVE GroupModes(_)
GroupModes(ms) ==
    IF Len(ms) = 0 THEN <<>>
    ELSE GroupAppend(GroupModes(SubSeq(ms, 1, Len(ms) - 1)), ms[Len(ms)])

get_modes_by_resolution(ms) ==
    LET grouped == GroupModes(ms)
    IN  [i \in 1..Len(grouped) |->
            [grouped[i] EXCEPT !.modes = SortByRateDesc(@)]]

(***************************************************************************)
(* Monitor.get_top_modes                                                   *)
(***************************************************************************)
\* the (pixel_count, resolution, modes) tuples of the retained resolutions
RECURSIVE ResolutionScores(_)
ResolutionScores(grouped) ==
    IF Len(grouped) = 0 THEN <<>>
    ELSE LET g == Head(grouped)
             pc0 == PixelCount(g.resolution)
         IN  IF pc0 < MIN_PIXELS
             THEN ResolutionScores(Tail(grouped))
             ELSE <<[pixel_count |-> pc0, resolution |-> g.resolution,
                     modes |-> g.modes]>> \o ResolutionScores(Tail(grouped))

\* tuple comparison a > b: pixel count first, then the resolution string
ScoreGreater(a, b) ==
    \/ a.pixel_count > b.pixel_count
    \/ a.pixel_count = b.pixel_count /\ StrLess(b.resolution, a.resolution)

RECURSIVE InsertScore(_, _)
InsertScore(sorted, s) ==
    IF Len(sorted) = 0 THEN <<s>>
    ELSE IF ScoreGreater(s, Head(sorted))
         THEN <<s>> \o sorted
         ELSE <<Head(sorted)>> \o InsertScore(Tail(sorted), s)

\* resolution_scores.sort(reverse=True)
RECURSIVE SortScores(_)
SortScores(scores) ==
    IF Len(scores) = 0 THEN <<>>
    ELSE InsertScore(SortScores(SubSeq(scores, 1, Len(scores) - 1)), scores[Len(scores)])

Prefix(s, n) == SubSeq(s, 1, IF n < Len(s) THEN n ELSE Len(s))

\* is_native = pixel_count == resolution_scores[0][0]
IsNative(score, scores) == score.pixel_count = scores[1].pixel_count

\* a ranker that gives every resolution the native quota
MaxRatesPerResolution_allnative(score, scores) == 3

MaxRatesPerResolution(score, scores) == IF IsNative(score, scores) THEN 3 ELSE 2

\* the for loop of get_top_modes, from entry i on, with its break
RECURSIVE TopLoop(_, _, _, _)
TopLoop(scores, i, top, lim) ==
    IF i > Len(scores) THEN top
    ELSE LET top2 == top \o Prefix(scores[i].modes,
                                   MaxRatesPerResolution(scores[i], scores))
         IN  IF Len(top2) >= lim THEN top2
             ELSE TopLoop(scores, i + 1, top2, lim)

\* a ranker that forgets the final top_modes[:limit]
get_top_modes_untruncated(ms, lim) ==
    TopLoop(SortScores(ResolutionScores(get_modes_by_resolution(ms))), 1, <<>>, lim)

get_top_modes(ms, lim) ==
    LET scores == SortScores(ResolutionScores(get_modes_by_resolution(ms)))
    IN  Prefix(TopLoop(scores, 1, <<>>, lim), lim)

(***************************************************************************)
(* Inputs of the ranker                                                    *)
(***************************************************************************)
Res(w, h) == Digits(w) \o <<"x">> \o Digits(h)

Rate60  == <<"6", "0", ".", "0", "0", "0">>
Rate100 == <<"1", "0", "0", ".", "0", "0", "6">>
Rate144 == <<"1", "4", "4", ".", "0", "0", "0">>
RatePool == {Rate60, Rate100, Rate144}

ResSubHD  == Res(1024, 768)     \* below 1280x720
ResHD     == Res(1280, 720)     \* exactly the minimum
ResTieA   == Res(1920, 1200)    \* 2304000 pixels
ResTieB   == Res(2304, 1000)    \* 2304000 pixels as well
ResPool == {ResSubHD, ResHD, ResTieA, ResTieB}

ModePool == {MonitorMode(r, f) : r \in ResPool, f \in RatePool}

\* mode lists the ranking starts from: nothing; a display that reports two
\* resolutions of equal pixel count with three rates each
TwoNativeModes ==
    <<MonitorMode(ResTieA, Rate60), MonitorMode(ResTieA, Rate144),
      MonitorMode(ResTieA, Rate100), MonitorMode(ResTieB, Rate100),
      MonitorMode(ResTieB, Rate60), MonitorMode(ResTieB, Rate144)>>
\* a display with a single resolution offering the rates 60, 100 and 144
SingleResolutionModes ==
    <<MonitorMode(ResHD, Rate60), MonitorMode(ResHD, Rate144),
      MonitorMode(ResHD, Rate100)>>
\* a display with a native resolution and a lower one, three rates each
TwoResolutionModes ==
    <<MonitorMode(ResTieA, Rate144), MonitorMode(ResTieA, Rate100),
      MonitorMode(ResTieA, Rate60), MonitorMode(ResHD, Rate144),
      MonitorMode(ResHD, Rate100), MonitorMode(ResHD, Rate60)>>
StartLists == {<<>>, TwoNativeModes, SingleResolutionModes, TwoResolutionModes}

DefaultLimit == 10
Limits == (0..MaxLimit) \cup {DefaultLimit}

(***************************************************************************)
(* Specification of the ranker alone                                       *)
(***************************************************************************)
RankInit ==
    /\ modes \in StartLists
    /\ limit = DefaultLimit
    /\ result = <<>>
    /\ ranked = FALSE
    /\ SystemIdle
    /\ ParserIdle

\* parse_monitors appends one MonitorMode per mode line
AppendMode(m) ==
    /\ ~ranked
    /\ \E s \in StartLists : Len(modes) < Len(s) + MaxExtraModes /\ Prefix(modes, Len(s)) = s
    /\ modes' = Append(modes, m)
    /\ UNCHANGED <<limit, result, ranked>>
    /\ UNCHANGED <<svars, pvars>>

CallGetTopModes(lim) ==
    /\ ~ranked
    /\ limit' = lim
    /\ result' = get_top_modes(modes, lim)
    /\ ranked' = TRUE
    /\ UNCHANGED modes
    /\ UNCHANGED <<svars, pvars>>

RankNext ==
    \/ \E m \in ModePool : AppendMode(m)
    \/ \E lim \in Limits : CallGetTopModes(lim)

SpecRank == RankInit /\ [][RankNext]_vars

(***************************************************************************)
(* The external tool and the backup directory, as both scripts see them    *)
(***************************************************************************)
MaxApplies == 6      \* applies started before the model stops applying

Event(ev, arg) == [ev |-> ev, arg |-> arg]

\* what "gdctl set" can answer: success, or a failure whose error text does or
\* does not contain the word "mode"
SetOutcomes == {"ok", "fail_mode", "fail_other"}
\* what a backup attempt can meet: the query and the file system work, the query
\* fails, the directory cannot be made, the file cannot be opened or written
BackupOutcomes == {"ok", "query_fails", "mkdir_fails", "write_fails"}
\* seconds gone by since the newest backup file was named, when time.time() is
\* read for the next one: none (the same name again) or some (a later name)
Elapsed == {0, 1}

\* x.stat().st_mtime of the backup file named by capture time f: the file is
\* written in the second that names it
Mtime(f) == f

\* sorted(backup_dir.glob("gdctl-backup-*.txt"), key=st_mtime, reverse=True)
RECURSIVE SortByMtimeDesc(_)
SortByMtimeDesc(files) ==
    IF files = {} THEN <<>>
    ELSE LET newest == CHOOSE f \in files : \A g \in files : Mtime(g) <= Mtime(f)
         IN  <<newest>> \o SortByMtimeDesc(files \ {newest})

KeepBackups == 5

Cleanup_keeps_oldest(files) ==
    LET backup_files == SortByMtimeDesc(files)
        n == Len(backup_files)
    IN  IF n > KeepBackups
        THEN {backup_files[i] : i \in (n - KeepBackups + 1)..n}
        ELSE files

\* the files left by the cleanup of backup_config: backup_files[5:] are unlinked
Cleanup(files) ==
    LET backup_files == SortByMtimeDesc(files)
    IN  IF Len(backup_files) > KeepBackups
        THEN {backup_files[i] : i \in 1..KeepBackups}
        ELSE files

\* gdctl-instant.py backup_config: the files and the clock after the call, what
\* it printed and ran, and whether it raised. When the query fails, run_command
\* of this script prints the error text of the tool.
backup_config(files, clk, outcome, dt) ==
    IF outcome = "mkdir_fails"
    THEN [backups |-> files, clock |-> clk, raised |-> TRUE,
          events |-> <<Event("backup", "raised")>>]
    ELSE IF outcome = "query_fails"
    THEN [backups |-> files, clock |-> clk, raised |-> FALSE,
          events |-> <<Event("backup", "query_failed"), Event("error_printed", "gdctl show")>>]
    ELSE IF outcome = "write_fails"
    THEN [backups |-> files, clock |-> clk, raised |-> TRUE,
          events |-> <<Event("backup", "raised")>>]
    ELSE LET written == files \cup {clk + dt}
             kept    == Cleanup(written)
         IN  [backups |-> kept, clock |-> clk + dt, raised |-> FALSE,
              events |-> <<Event("backup", "written")>> \o
                         (IF kept = written THEN <<>>
                          ELSE <<Event("cleaned_up", written \ kept)>>)]

\* monitor-switch.py backup_current_config: every exception is caught and
\* reported as a warning; a failed query prints nothing; nothing is ever deleted
backup_current_config(files, clk, outcome, dt) ==
    IF outcome = "query_fails"
    THEN [backups |-> files, clock |-> clk, raised |-> FALSE,
          events |-> <<Event("backup", "query_failed")>>]
    ELSE IF outcome = "mkdir_fails"
    THEN [backups |-> files, clock |-> clk, raised |-> FALSE,
          events |-> <<Event("backup", "failed"), Event("warning", "backup")>>]
    ELSE IF outcome = "write_fails"
    THEN [backups |-> files, clock |-> clk, raised |-> FALSE,
          events |-> <<Event("backup", "failed"), Event("warning", "backup")>>]
    ELSE [backups |-> files \cup {clk + dt}, clock |-> clk + dt, raised |-> FALSE,
          events |-> <<Event("backup", "written")>>]

(***************************************************************************)
(* gdctl-instant.py                                                        *)
(***************************************************************************)
ModeText(w, h, rate) == Res(w, h) \o <<"@">> \o rate

Rate59973 == <<"5", "9", ".", "9", "7", "3">>
Rate179981 == <<"1", "7", "9", ".", "9", "8", "1">>

Mode3440x1440at100 == ModeText(3440, 1440, Rate100)
Mode3440x1440at180 == ModeText(3440, 1440, Rate179981)
Mode3440x1440at60 == ModeText(3440, 1440, Rate59973)
Mode2560x1080at60 == ModeText(2560, 1080, Rate60)
Mode2880x1920at60 == ModeText(2880, 1920, Rate60)
Mode1920x1080at60 == ModeText(1920, 1080, Rate60)

\* MONITORS: max_mode of each known monitor
MONITORS ==
    [m \in {"DP-2", "DP-3", "DP-4", "eDP-1"} |->
        CASE m = "DP-2"  -> Mode3440x1440at100
          [] m = "DP-3"  -> Mode2560x1080at60
          [] m = "DP-4"  -> Mode3440x1440at180
          [] m = "eDP-1" -> Mode2880x1920at60]

Ports == DOMAIN MONITORS

\* answers of "gdctl show": a failure, or a listing with the monitor headers of
\* the connected ports
ConnectedSets ==
    {{}, {"eDP-1"}, {"eDP-1", "DP-3"}, {"eDP-1", "DP-4"}, {"DP-2", "DP-3"}, Ports}
ShowAnswers ==
    {[ok |-> FALSE, ports |-> {}]} \cup {[ok |-> TRUE, ports |-> P] : P \in ConnectedSets}

get_connected_monitors(show) == IF ~show.ok THEN {} ELSE show.ports

\* one --logical-monitor group of a "gdctl set" command line
Placement(monitor, mode, primary) ==
    [monitor |-> monitor, mode |-> mode, primary |-> primary]

\* the error text of a failed command names the mode, or it does not
ErrorText(outcome) ==
    CASE outcome = "ok" -> "" [] outcome = "fail_mode" -> "mode" [] outcome = "fail_other" -> "other"

SetEvent(placements, outcome) ==
    Event("set", [placements |-> placements, ok |-> (outcome = "ok"),
                  error |-> ErrorText(outcome)])

\* the value main passes for with_backup (the default of the parameter)
main_with_backup_off == FALSE

main_with_backup == TRUE

\* a safety check that lets every monitor pass
NotConnected_never(monitor_id, connected_monitors) == FALSE

\* switch_to_single_monitor: "if monitor_id not in connected_monitors"
NotConnected(monitor_id, connected_monitors) == monitor_id \notin connected_monitors

\* switch_to_single_monitor(monitor_id, with_backup): what the call printed and
\* ran, the directory and the clock after it, its return value, and whether an
\* exception left it
switch_to_single_monitor(monitor_id, with_backup, show, files, clk, b, dt, s) ==
    LET connected_monitors == get_connected_monitors(show)
        same == [backups |-> files, clock |-> clk, raised |-> FALSE]
    IN  IF monitor_id \notin DOMAIN MONITORS
        THEN same @@ [success |-> FALSE, applied |-> FALSE,
                      events |-> <<Event("unknown_monitor", monitor_id)>>]
        ELSE IF NotConnected(monitor_id, connected_monitors)
        THEN same @@ [success |-> FALSE, applied |-> FALSE,
                      events |-> <<Event("not_connected", monitor_id)>>]
        ELSE LET bk == IF with_backup THEN backup_config(files, clk, b, dt)
                       ELSE same @@ [events |-> <<>>]
                 cmd == SetEvent(<<Placement(monitor_id, MONITORS[monitor_id], TRUE)>>, s)
             IN  IF bk.raised
                 THEN [backups |-> bk.backups, clock |-> bk.clock, raised |-> TRUE,
                       success |-> FALSE, applied |-> TRUE, events |-> bk.events]
                 ELSE [backups |-> bk.backups, clock |-> bk.clock, raised |-> FALSE,
                       success |-> (s = "ok"), applied |-> TRUE,
                       events |-> bk.events \o <<cmd>>]

\* a triple preset that is content with any one of the three monitors
restore_triple_monitor_any(show, files, clk, b, dt, s) ==
    LET connected_monitors == get_connected_monitors(show)
        required_monitors == {"DP-2", "DP-3", "DP-4"}
        missing_monitors == IF required_monitors \cap connected_monitors # {} THEN {}
                            ELSE required_monitors
        bk == backup_config(files, clk, b, dt)
        cmd == SetEvent(<<Placement("DP-3", Mode2560x1080at60, FALSE),
                          Placement("DP-4", MONITORS["DP-4"], FALSE),
                          Placement("DP-2", MONITORS["DP-2"], TRUE)>>, s)
    IN  IF missing_monitors # {}
        THEN [backups |-> files, clock |-> clk, raised |-> FALSE,
              success |-> FALSE, applied |-> FALSE,
              events |-> <<Event("missing_monitors", missing_monitors)>>]
        ELSE IF bk.raised
        THEN [backups |-> bk.backups, clock |-> bk.clock, raised |-> TRUE,
              success |-> FALSE, applied |-> TRUE, events |-> bk.events]
        ELSE [backups |-> bk.backups, clock |-> bk.clock, raised |-> FALSE,
              success |-> (s = "ok"), applied |-> TRUE,
              events |-> bk.events \o <<cmd>>]

\* restore_triple_monitor
restore_triple_monitor(show, files, clk, b, dt, s) ==
    LET connected_monitors == get_connected_monitors(show)
        required_monitors == {"DP-2", "DP-3", "DP-4"}
        missing_monitors == required_monitors \ connected_monitors
        bk == backup_config(files, clk, b, dt)
        cmd == SetEvent(<<Placement("DP-3", Mode2560x1080at60, FALSE),
                          Placement("DP-4", MONITORS["DP-4"], FALSE),
                          Placement("DP-2", MONITORS["DP-2"], TRUE)>>, s)
    IN  IF missing_monitors # {}
        THEN [backups |-> files, clock |-> clk, raised |-> FALSE,
              success |-> FALSE, applied |-> FALSE,
              events |-> <<Event("missing_monitors", missing_monitors)>>]
        ELSE IF bk.raised
        THEN [backups |-> bk.backups, clock |-> bk.clock, raised |-> TRUE,
              success |-> FALSE, applied |-> TRUE, events |-> bk.events]
        ELSE [backups |-> bk.backups, clock |-> bk.clock, raised |-> FALSE,
              success |-> (s = "ok"), applied |-> TRUE,
              events |-> bk.events \o <<cmd>>]

\* the external monitor picked by setup_dual_monitor: the first connected one of
\* DP-3, DP-4, DP-2, "none" when there is none
ExternalMonitor(connected_monitors) ==
    IF "DP-3" \in connected_monitors THEN "DP-3"
    ELSE IF "DP-4" \in connected_monitors THEN "DP-4"
    ELSE IF "DP-2" \in connected_monitors THEN "DP-2"
    ELSE "none"

\* a preset that retries after every failure
RetryWithAlternative_always(s, external_monitor) == s # "ok"

\* setup_dual_monitor: the first command failed and
\* "mode" in str(error).lower() and external_monitor == 'DP-3'
RetryWithAlternative(s, external_monitor) ==
    s # "ok" /\ s = "fail_mode" /\ external_monitor = "DP-3"

\* setup_dual_monitor; s2 is the answer to the fallback command, when it is run
setup_dual_monitor(show, files, clk, b, dt, s, s2) ==
    LET connected_monitors == get_connected_monitors(show)
        external_monitor == ExternalMonitor(connected_monitors)
        external_mode ==
            IF external_monitor = "DP-3" THEN Mode1920x1080at60
            ELSE Mode3440x1440at60
        laptop == Placement("eDP-1", Mode2880x1920at60, FALSE)
        bk == backup_config(files, clk, b, dt)
        cmd == SetEvent(<<laptop, Placement(external_monitor, external_mode, TRUE)>>, s)
        retry == RetryWithAlternative(s, external_monitor)
        cmd2 == SetEvent(<<laptop, Placement(external_monitor, Mode2560x1080at60, TRUE)>>, s2)
    IN  IF "eDP-1" \notin connected_monitors
        THEN [backups |-> files, clock |-> clk, raised |-> FALSE,
              success |-> FALSE, applied |-> FALSE,
              events |-> <<Event("no_laptop_display", connected_monitors)>>]
        ELSE IF external_monitor = "none"
        THEN [backups |-> files, clock |-> clk, raised |-> FALSE,
              success |-> FALSE, applied |-> FALSE,
              events |-> <<Event("no_external_monitor", connected_monitors)>>]
        ELSE IF bk.raised
        THEN [backups |-> bk.backups, clock |-> bk.clock, raised |-> TRUE,
              success |-> FALSE, applied |-> TRUE, events |-> bk.events]
        ELSE [backups |-> bk.backups, clock |-> bk.clock, raised |-> FALSE,
              success |-> (IF retry THEN s2 = "ok" ELSE s = "ok"), applied |-> TRUE,
              events |-> bk.events \o <<cmd>> \o (IF retry THEN <<cmd2>> ELSE <<>>)]

\* answers of the environment that a run never asks for are not enumerated
\* twice: they are fixed to the first value
OnlyAsked(b, dt, s, asked_backup, asked_set) ==
    /\ (~asked_backup => b = "ok")
    /\ (~(asked_backup /\ b = "ok") => dt = 0)
    /\ (~asked_set => s = "ok")

\* the end of a run of gdctl-instant.py: main exits 1 when the command returned
\* False, an uncaught exception ends the process with a traceback and status 1
FinishInstant(command, show, r) ==
    /\ pc = "Shell"
    /\ r.applied => applies < MaxApplies
    /\ pc' = "Exit"
    /\ prog' = [script |-> "gdctl-instant.py", command |-> command]
    /\ connected' = get_connected_monitors(show)
    /\ backups' = r.backups
    /\ clock' = r.clock
    /\ applies' = IF r.applied THEN applies + 1 ELSE applies
    /\ log' = IF r.raised THEN r.events \o <<Event("traceback", "OSError")>> ELSE r.events
    /\ exit_code' = IF r.raised \/ ~r.success THEN 1 ELSE 0
    /\ monitors' = <<>>
    /\ selected_monitor' = 0
    /\ show_all' = FALSE
    /\ selected_mode' = NoMode
    /\ notice' = "none"
    /\ UNCHANGED <<rvars, pvars>>

\* a main that runs the dual preset for every command token it does not know
MainDispatch_unknown_as_dual(command) ==
    IF command \in {"show", "list", "available", "triple", "dual"} THEN command
    ELSE IF command \in DOMAIN MONITORS THEN "single"
    ELSE "dual"

\* the branch main takes for sys.argv[1]
MainDispatch(command) ==
    IF command = "show" THEN "show"
    ELSE IF command = "list" THEN "list"
    ELSE IF command = "available" THEN "available"
    ELSE IF command = "triple" THEN "triple"
    ELSE IF command = "dual" THEN "dual"
    ELSE IF command \in DOMAIN MONITORS THEN "single"
    ELSE "unknown"

\* command tokens typed after gdctl-instant.py
CommandTokens ==
    Ports \cup {"show", "list", "available", "triple", "dual", "dp-2", "bogus"}

\* the result of a branch of main that calls no preset: nothing is backed up or
\* set
NoPreset(success, events) ==
    [backups |-> backups, clock |-> clock, raised |-> FALSE,
     success |-> success, applied |-> FALSE, events |-> events]

\* "gdctl show" was not run
NotQueried == [ok |-> FALSE, ports |-> {}]

\* gdctl-instant.py without a command token: the usage text, the environment
\* read from "gdctl show", sys.exit(1)
RunNoArguments(show) ==
    /\ pc = "Shell"
    /\ FinishInstant("", show,
           NoPreset(FALSE, <<Event("usage", get_connected_monitors(show))>>))

\* gdctl-instant.py show | list | available: exit status 0
RunInfo(command, show) ==
    /\ pc = "Shell"
    /\ MainDispatch(command) \in {"show", "list", "available"}
    /\ command # "available" => show = NotQueried
    /\ FinishInstant(command, show, NoPreset(TRUE, <<Event("info", command)>>))

\* gdctl-instant.py <anything else>: "Unknown command", sys.exit(1)
RunUnknown(command) ==
    /\ pc = "Shell"
    /\ MainDispatch(command) = "unknown"
    /\ FinishInstant(command, NotQueried,
           NoPreset(FALSE, <<Event("unknown_command", command)>>))

\* gdctl-instant.py <monitor id>
RunSingle(command, show, b, dt, s) ==
    /\ pc = "Shell"
    /\ MainDispatch(command) = "single"
    /\ LET asked == command \in get_connected_monitors(show)
       IN  OnlyAsked(b, dt, s, asked, asked /\ b \in {"ok", "query_fails"})
    /\ FinishInstant(command, show,
           switch_to_single_monitor(command, main_with_backup, show, backups, clock, b, dt, s))

\* gdctl-instant.py triple
RunTriple(command, show, b, dt, s) ==
    /\ pc = "Shell"
    /\ MainDispatch(command) = "triple"
    /\ LET asked == {"DP-2", "DP-3", "DP-4"} \subseteq get_connected_monitors(show)
       IN  OnlyAsked(b, dt, s, asked, asked /\ b \in {"ok", "query_fails"})
    /\ FinishInstant(command, show, restore_triple_monitor(show, backups, clock, b, dt, s))

\* gdctl-instant.py dual
RunDual(command, show, b, dt, s, s2) ==
    /\ pc = "Shell"
    /\ MainDispatch(command) = "dual"
    /\ LET conn == get_connected_monitors(show)
           asked == "eDP-1" \in conn /\ ExternalMonitor(conn) # "none"
           set_asked == asked /\ b \in {"ok", "query_fails"}
       IN  /\ OnlyAsked(b, dt, s, asked, set_asked)
           /\ ~(set_asked /\ RetryWithAlternative(s, ExternalMonitor(conn))) => s2 = "ok"
    /\ FinishInstant(command, show, setup_dual_monitor(show, backups, clock, b, dt, s, s2))

InstantNext ==
    \/ \E show \in ShowAnswers : RunNoArguments(show)
    \/ \E command \in CommandTokens :
          /\ MainDispatch(command) \in {"show", "list", "available"}
          /\ \E show \in ShowAnswers : RunInfo(command, show)
    \/ \E command \in CommandTokens : RunUnknown(command)
    \/ \E command \in CommandTokens :
          /\ MainDispatch(command) = "single"
          /\ \E show \in ShowAnswers, b \in BackupOutcomes, dt \in Elapsed,
                s \in SetOutcomes : RunSingle(command, show, b, dt, s)
    \/ \E command \in CommandTokens :
          /\ MainDispatch(command) = "triple"
          /\ \E show \in ShowAnswers, b \in BackupOutcomes, dt \in Elapsed,
                s \in SetOutcomes : RunTriple(command, show, b, dt, s)
    \/ \E command \in CommandTokens :
          /\ MainDispatch(command) = "dual"
          /\ \E show \in ShowAnswers, b \in BackupOutcomes, dt \in Elapsed,
                s \in SetOutcomes, s2 \in SetOutcomes : RunDual(command, show, b, dt, s, s2)

(***************************************************************************)
(* monitor-switch.py: the interactive menu                                 *)
(***************************************************************************)
LowerChars == <<"a", "b", "e", "n", "o", "q", "s", "t", "x", "y">>
UpperChars == <<"A", "B", "E", "N", "O", "Q", "S", "T", "X", "Y">>

IndexIn(chars, c) == CHOOSE i \in 1..Len(chars) : chars[i] = c

\* str.upper and str.lower, character by character
upper(s) ==
    [i \in 1..Len(s) |->
        IF \E k \in 1..Len(LowerChars) : LowerChars[k] = s[i]
        THEN UpperChars[IndexIn(LowerChars, s[i])] ELSE s[i]]
lower(s) ==
    [i \in 1..Len(s) |->
        IF \E k \in 1..Len(UpperChars) : UpperChars[k] = s[i]
        THEN LowerChars[IndexIn(UpperChars, s[i])] ELSE s[i]]

\* str.strip for blanks
RECURSIVE strip(_)
strip(s) ==
    IF Len(s) = 0 THEN s
    ELSE IF Head(s) = " " THEN strip(Tail(s))
    ELSE IF s[Len(s)] = " " THEN strip(SubSeq(s, 1, Len(s) - 1))
    ELSE s

\* int(choice) does not raise ValueError (for the lines typed here: a non-empty
\* string of digits)
IsInt(s) == Len(s) > 0 /\ \A i \in 1..Len(s) : \E d \in 1..10 : DigitChars[d] = s[i]

\* lines the user types at a prompt
InputLines ==
    {<<"0">>, <<"1">>, <<"2">>, <<"3">>, <<"4">>, <<"5">>,
     <<"q">>, <<" ", "Q">>, <<"b">>, <<"B">>, <<"a">>, <<"A">>, <<"t">>,
     <<"y">>, <<"Y">>, <<"y", "e", "s">>, <<"n">>, <<"n", "o">>, <<>>, <<"x">>}

\* the box-drawing characters of the tool's listings, one character each:
\* U+251C (tee), U+2514 (corner), U+2500 (horizontal), U+2502 (vertical)
BoxVR == "|-"
BoxUR == "L-"
BoxH == "--"
BoxV == "|"

\* pat occurs in s at index i
StartsWithAt(s, pat, i) ==
    /\ i >= 1
    /\ i + Len(pat) - 1 <= Len(s)
    /\ \A k \in 1..Len(pat) : s[i + k - 1] = pat[k]

\* s.find(pat) + 1: the index of the first occurrence, 0 when there is none
IndexOf(s, pat) ==
    IF \E i \in 1..Len(s) : StartsWithAt(s, pat, i)
    THEN CHOOSE i \in 1..Len(s) :
            StartsWithAt(s, pat, i) /\ \A j \in 1..(i - 1) : ~StartsWithAt(s, pat, j)
    ELSE 0

\* pat in s
Contains(s, pat) == IndexOf(s, pat) # 0

\* s.split(sep)[1], for a line that contains sep
SplitSecond(s, sep) ==
    LET rest == SubSeq(s, IndexOf(s, sep) + Len(sep), Len(s))
        j == IndexOf(rest, sep)
    IN  IF j = 0 THEN rest ELSE SubSeq(rest, 1, j - 1)

\* the characters matched by \s, \S and \d
InClass(c, class) ==
    CASE class = "s" -> c = " "
      [] class = "S" -> c # " "
      [] class = "d" -> \E d \in 1..10 : DigitChars[d] = c

\* the last index of the longest run of class characters that starts at i
\* (i - 1 when s[i] is not of the class): what a greedy + or * consumes
RECURSIVE RunEnd(_, _, _)
RunEnd(s, i, class) ==
    IF i > Len(s) \/ ~InClass(s[i], class) THEN i - 1
    ELSE RunEnd(s, i + 1, class)

WordMonitor == <<BoxH, BoxH, "M", "o", "n", "i", "t", "o", "r">>

\* the regular expression [BoxVR BoxUR]--Monitor\s+(\S+)\s+\((.+?)\) matches at index p
HeaderAt(line, p) ==
    LET a == p + 1 + Len(WordMonitor)
        b == RunEnd(line, a, "s")
        c == RunEnd(line, b + 1, "S")
        d == RunEnd(line, c + 1, "s")
    IN  /\ line[p] \in {BoxVR, BoxUR}
        /\ StartsWithAt(line, WordMonitor, p + 1)
        /\ b >= a
        /\ c > b
        /\ d > c
        /\ d + 1 <= Len(line)
        /\ line[d + 1] = "("
        /\ \E k \in (d + 3)..Len(line) : line[k] = ")"

\* re.search: the leftmost index where the header expression matches, 0 for
\* no match
HeaderPos(line) ==
    IF \E p \in 1..Len(line) : HeaderAt(line, p)
    THEN CHOOSE p \in 1..Len(line) :
            HeaderAt(line, p) /\ \A q \in 1..(p - 1) : ~HeaderAt(line, q)
    ELSE 0

\* group(1) and group(2) of the header match at p
HeaderId(line, p) ==
    LET b == RunEnd(line, p + 1 + Len(WordMonitor), "s")
    IN  SubSeq(line, b + 1, RunEnd(line, b + 1, "S"))
HeaderName(line, p) ==
    LET b == RunEnd(line, p + 1 + Len(WordMonitor), "s")
        c == RunEnd(line, b + 1, "S")
        open == RunEnd(line, c + 1, "s") + 1
        close == CHOOSE k \in (open + 2)..Len(line) :
                    line[k] = ")" /\ \A j \in (open + 2)..(k - 1) : line[j] # ")"
    IN  SubSeq(line, open + 1, close - 1)

\* re.match(r'\s+[BoxVR BoxUR]--\d+x\d+@\d+\.\d+', line): the expression matches at the
\* start of the line
ModeLineMatch(line) ==
    LET a == RunEnd(line, 1, "s")
        w == RunEnd(line, a + 4, "d")
        h == RunEnd(line, w + 2, "d")
        r == RunEnd(line, h + 2, "d")
    IN  /\ a >= 1
        /\ a + 3 <= Len(line)
        /\ line[a + 1] \in {BoxVR, BoxUR}
        /\ line[a + 2] = BoxH /\ line[a + 3] = BoxH
        /\ w >= a + 4
        /\ w + 1 <= Len(line) /\ line[w + 1] = "x"
        /\ h >= w + 2
        /\ h + 1 <= Len(line) /\ line[h + 1] = "@"
        /\ r >= h + 2
        /\ r + 1 <= Len(line) /\ line[r + 1] = "."
        /\ RunEnd(line, r + 2, "d") >= r + 2

TagTee == <<BoxVR, BoxH, BoxH>>
TagEnd == <<BoxUR, BoxH, BoxH>>
TagVendor == <<"V", "e", "n", "d", "o", "r", ":">>
TagProduct == <<"P", "r", "o", "d", "u", "c", "t", ":">>

\* the number of "@" in the text: split('@') gives one part more
CountAt(s) == Cardinality({i \in 1..Len(s) : s[i] = "@"})

\* resolution, refresh = mode_text.split('@'), for a text with exactly one "@"
ModeOfText(mode_text) ==
    MonitorMode(SubSeq(mode_text, 1, Find(mode_text, "@", 1) - 1),
                SubSeq(mode_text, Find(mode_text, "@", 1) + 1, Len(mode_text)))

Monitor(id, name, vendor, product, ms, current_mode) ==
    [id |-> id, name |-> name, vendor |-> vendor, product |-> product,
     modes |-> ms, current_mode |-> current_mode]

\* the loop of parse_monitors over the lines of "gdctl show --modes";
\* current_monitor is the monitor appended last; raised: the unpacking of
\* split('@') raised ValueError
RECURSIVE ParseMonitorLines(_, _)
ParseMonitorLines(lines, acc) ==
    IF Len(lines) = 0 \/ acc.raised THEN acc
    ELSE LET line == Head(lines)
             p == HeaderPos(line)
             n == Len(acc.monitors)
             mode_text == IF Contains(line, TagTee) THEN strip(SplitSecond(line, TagTee))
                          ELSE strip(SplitSecond(line, TagEnd))
         IN  ParseMonitorLines(Tail(lines),
                IF p # 0
                THEN [acc EXCEPT !.monitors =
                        Append(@, Monitor(HeaderId(line, p), HeaderName(line, p),
                                          <<>>, <<>>, <<>>, NoMode))]
                ELSE IF Contains(line, TagTee \o TagVendor) /\ n > 0
                THEN [acc EXCEPT !.monitors[n].vendor = strip(SplitSecond(line, TagVendor))]
                ELSE IF Contains(line, TagTee \o TagProduct) /\ n > 0
                THEN [acc EXCEPT !.monitors[n].product = strip(SplitSecond(line, TagProduct))]
                ELSE IF ModeLineMatch(line) /\ n > 0
                THEN IF ~Contains(mode_text, <<"@">>) THEN acc
                     ELSE IF CountAt(mode_text) # 1 THEN [acc EXCEPT !.raised = TRUE]
                     ELSE [acc EXCEPT !.monitors[n].modes = Append(@, ModeOfText(mode_text))]
                ELSE acc)

\* the loop of parse_current_modes over the lines of "gdctl show": the id of
\* the header seen last (<<>> for None), the dict as a function
RECURSIVE ParseCurrentLines(_, _)
ParseCurrentLines(lines, acc) ==
    IF Len(lines) = 0 \/ acc.raised THEN acc
    ELSE LET line == Head(lines)
             p == HeaderPos(line)
             mode_text == strip(SplitSecond(line, TagEnd))
         IN  ParseCurrentLines(Tail(lines),
                IF p # 0
                THEN [acc EXCEPT !.current_monitor = HeaderId(line, p)]
                ELSE IF Contains(line, TagEnd) /\ Contains(line, <<"@">>)
                        /\ acc.current_monitor # <<>>
                THEN IF ~Contains(mode_text, <<"@">>) THEN acc
                     ELSE IF CountAt(mode_text) # 1 THEN [acc EXCEPT !.raised = TRUE]
                     ELSE [acc EXCEPT !.current_modes =
                             (acc.current_monitor :> ModeOfText(mode_text)) @@ @]
                ELSE acc)

parse_current_modes(config_lines) ==
    ParseCurrentLines(config_lines,
                      [current_monitor |-> <<>>, current_modes |-> <<>>, raised |-> FALSE])

\* a matching that takes the running mode as it is reported
MatchCurrentMode_unlisted(monitor, current_modes) ==
    IF monitor.id \in DOMAIN current_modes
    THEN [monitor EXCEPT !.current_mode = current_modes[monitor.id]]
    ELSE monitor

\* the matching loop of parse_monitors for one monitor: the first mode of its
\* own list that equals the current mode of its id
MatchCurrentMode(monitor, current_modes) ==
    IF /\ monitor.id \in DOMAIN current_modes
       /\ \E k \in 1..Len(monitor.modes) : monitor.modes[k] = current_modes[monitor.id]
    THEN [monitor EXCEPT !.current_mode =
            monitor.modes[CHOOSE k \in 1..Len(monitor.modes) :
                             /\ monitor.modes[k] = current_modes[monitor.id]
                             /\ \A j \in 1..(k - 1) :
                                   monitor.modes[j] # current_modes[monitor.id]]]
    ELSE monitor

\* parse_monitors: gdctl_lines and config_lines are the lines of the two
\* listings, config_ok tells whether "gdctl show" succeeded. raised: an
\* exception left the function; warning: the current modes could not be
\* determined
parse_monitors(gdctl_lines, config_ok, config_lines) ==
    LET parsed_lines == ParseMonitorLines(gdctl_lines, [monitors |-> <<>>, raised |-> FALSE])
        cur == parse_current_modes(config_lines)
    IN  IF parsed_lines.raised
        THEN [raised |-> TRUE, warning |-> FALSE, monitors |-> <<>>]
        ELSE IF ~config_ok \/ cur.raised
        THEN [raised |-> FALSE, warning |-> TRUE, monitors |-> parsed_lines.monitors]
        ELSE [raised |-> FALSE, warning |-> FALSE,
              monitors |-> [i \in 1..Len(parsed_lines.monitors) |->
                              MatchCurrentMode(parsed_lines.monitors[i], cur.current_modes)]]

\* mode lists of two detected displays: one with a native resolution, a lower
\* one and a sub-HD one; one that reports a sub-HD resolution only
ModesA ==
    <<MonitorMode(ResTieA, Rate60), MonitorMode(ResTieA, Rate144),
      MonitorMode(ResHD, Rate60), MonitorMode(ResSubHD, Rate60)>>
ModesB == <<MonitorMode(ResSubHD, Rate60)>>

\* lines of the listings of the tool
Indent == <<" ", " ", " ">>
HeaderDP2 == <<BoxVR, BoxH, BoxH, "M", "o", "n", "i", "t", "o", "r", " ", "D", "P", "-", "2", " ", "(", "A", "S", "U", "S", ")">>
HeaderEDP1 == <<BoxUR, BoxH, BoxH, "M", "o", "n", "i", "t", "o", "r", " ", "e", "D", "P", "-", "1", " ", "(", "L", "a", "p", "t", "o", "p", ")">>
VendorLine == <<BoxV, " ", " ", BoxVR, BoxH, BoxH, "V", "e", "n", "d", "o", "r", ":", " ", "A", "U", "S">>
ProductLine == <<BoxV, " ", " ", BoxVR, BoxH, BoxH, "P", "r", "o", "d", "u", "c", "t", ":", " ", "V", "G", "3", "4">>
SectionLine == <<"M", "o", "n", "i", "t", "o", "r", "s", ":">>
ModeLine(tag, m) == Indent \o tag \o mode_string(m)

\* "gdctl show --modes" for the two displays, and a listing without a monitor
\* header whose vendor, product and mode lines belong to no monitor
VerboseTwoMonitors ==
    <<SectionLine, HeaderDP2, VendorLine, ProductLine,
      ModeLine(TagTee, ModesA[1]), ModeLine(TagTee, ModesA[2]),
      ModeLine(TagTee, ModesA[3]), ModeLine(TagEnd, ModesA[4]),
      HeaderEDP1, ModeLine(TagEnd, ModesB[1])>>
VerboseNoHeader ==
    <<SectionLine, VendorLine, ProductLine, ModeLine(TagTee, ModesA[1])>>
GdctlOutputs == {<<>>, VerboseNoHeader, VerboseTwoMonitors}

\* "gdctl show" for the two displays: the first one runs a mode of its list,
\* the second one a mode that its list does not hold
SummaryTwoMonitors ==
    <<SectionLine, HeaderDP2, <<BoxV>> \o Indent \o TagEnd \o mode_string(ModesA[1]),
      HeaderEDP1, ModeLine(TagEnd, MonitorMode(Res(2880, 1920), Rate60))>>
ConfigOutputs == {SummaryTwoMonitors}

(***************************************************************************)
(* Specification of the parser alone                                       *)
(***************************************************************************)
MaxListingLines == 2

\* lines the tool may print in "gdctl show --modes": a header, mode lines
\* indented by blanks or by the vertical bar of the tree, a vendor line
BarModeLine(tag, m) == <<BoxV>> \o Indent \o tag \o mode_string(m)
ListingLinePool ==
    {HeaderEDP1, HeaderDP2, VendorLine,
     ModeLine(TagTee, ModesA[1]), ModeLine(TagEnd, ModesA[3]), BarModeLine(TagTee, ModesA[1])}

\* lines the tool may print in "gdctl show": a header and the line of the
\* current mode
SummaryModes == {ModesA[1], ModesA[2]}
SummaryLinePool ==
    {HeaderEDP1, HeaderDP2} \cup {ModeLine(TagEnd, m) : m \in SummaryModes}

ParseInit ==
    /\ ParserIdle
    /\ SystemIdle
    /\ modes = <<>>
    /\ limit = DefaultLimit
    /\ result = <<>>
    /\ ranked = FALSE

\* the tool prints one more line of "gdctl show --modes"
AppendListingLine(l) ==
    /\ ~parsed.called
    /\ Len(gdctl_output) < MaxListingLines
    /\ gdctl_output' = Append(gdctl_output, l)
    /\ UNCHANGED <<config_output, parsed>>
    /\ UNCHANGED <<rvars, svars>>

\* the tool prints one more line of "gdctl show"
AppendSummaryLine(l) ==
    /\ ~parsed.called
    /\ Len(config_output) < MaxListingLines
    /\ config_output' = Append(config_output, l)
    /\ UNCHANGED <<gdctl_output, parsed>>
    /\ UNCHANGED <<rvars, svars>>

\* parse_monitors(gdctl_output); "gdctl show" succeeds or fails
CallParseMonitors(config_ok) ==
    /\ ~parsed.called
    /\ parsed' = parse_monitors(gdctl_output, config_ok, config_output) @@ [called |-> TRUE]
    /\ config_output' = IF config_ok THEN config_output ELSE <<>>
    /\ UNCHANGED gdctl_output
    /\ UNCHANGED <<rvars, svars>>

ParseNext ==
    \/ \E l \in ListingLinePool : AppendListingLine(l)
    \/ \E l \in SummaryLinePool : AppendSummaryLine(l)
    \/ \E config_ok \in BOOLEAN : CallParseMonitors(config_ok)

SpecParse == ParseInit /\ [][ParseNext]_vars

Prompts == {"SelectMonitor", "SelectMode", "Confirm", "Apply"}

RECURSIVE Flatten(_)
Flatten(grouped) ==
    IF Len(grouped) = 0 THEN <<>>
    ELSE Head(grouped).modes \o Flatten(Tail(grouped))

\* all_modes of display_refresh_rate_menu: the modes the numbers of the current
\* view select
all_modes(monitor, all) ==
    IF all THEN Flatten(get_modes_by_resolution(monitor.modes))
    ELSE get_top_modes(monitor.modes, DefaultLimit)

\* display_refresh_rate_menu returns None before it prompts: the top view has
\* no mode to show
NoSuitableModes(monitor, all) == ~all /\ Len(get_top_modes(monitor.modes, DefaultLimit)) = 0

\* sys.exit(status) and every other end of the menu process
ExitMenu(status, events) ==
    /\ pc' = "Exit"
    /\ exit_code' = status
    /\ log' = log \o events
    /\ monitors' = <<>>
    /\ selected_monitor' = 0
    /\ show_all' = FALSE
    /\ selected_mode' = NoMode
    /\ notice' = "none"
    /\ UNCHANGED <<prog, backups, clock, applies, connected>>
    /\ UNCHANGED <<rvars, pvars>>

\* a rejected line that ends the program
Reprompt_exits(message) == ExitMenu(1, <<Event("error", message)>>)

\* an inline error: the prompt is shown again
Reprompt(message) ==
    /\ notice' = message
    /\ UNCHANGED <<pc, prog, monitors, selected_monitor, show_all, selected_mode,
                   backups, clock, applies, log, exit_code, connected>>
    /\ UNCHANGED <<rvars, pvars>>

\* a main that takes every parse result into the menu loop
NoMonitors_never(ms) == FALSE

\* main: "if not monitors"
NoMonitors(ms) == Len(ms) = 0

\* the runs of the menu enumerated here: a failing "gdctl show" is paired with
\* the listings in which no monitor is detected
ConfigAnswered(listing, config_ok) == config_ok \/ listing # VerboseTwoMonitors

\* main up to the menu loop: the tool is queried and its output parsed
LaunchMenu(tool_ok, listing, config_ok, summary) ==
    /\ pc = "Shell"
    /\ ~tool_ok => (listing = <<>> /\ config_ok /\ summary \in ConfigOutputs)
    /\ prog' = [script |-> "monitor-switch.py", command |-> ""]
    /\ selected_monitor' = 0
    /\ show_all' = FALSE
    /\ selected_mode' = NoMode
    /\ LET r == parse_monitors(listing, config_ok, summary)
           warned == IF r.warning THEN <<Event("warning", "current_modes")>> ELSE <<>>
       IN  IF ~tool_ok
           THEN /\ pc' = "Exit" /\ exit_code' = 1 /\ monitors' = <<>>
                /\ log' = <<Event("error", "RuntimeError")>>
                /\ notice' = "none"
                /\ UNCHANGED pvars
           ELSE /\ gdctl_output' = listing
                /\ config_output' = IF config_ok THEN summary ELSE <<>>
                /\ parsed' = r @@ [called |-> TRUE]
                /\ IF r.raised
                   THEN /\ pc' = "Exit" /\ exit_code' = 1 /\ monitors' = <<>>
                        /\ log' = <<Event("error", "ValueError")>>
                        /\ notice' = "none"
                   ELSE IF NoMonitors(r.monitors)
                   THEN /\ pc' = "Exit" /\ exit_code' = 1 /\ monitors' = <<>>
                        /\ log' = warned \o <<Event("no_monitors_detected", "")>>
                        /\ notice' = "none"
                   ELSE /\ pc' = "SelectMonitor" /\ exit_code' = -1
                        /\ monitors' = r.monitors
                        /\ log' = <<>>
                        /\ notice' = IF r.warning THEN "warning_current_modes" ELSE "none"
    /\ UNCHANGED <<backups, clock, applies, connected>>
    /\ UNCHANGED rvars

\* display_monitor_menu reads a line; a valid number enters
\* display_refresh_rate_menu, which may return None at once
MonitorMenuInput(line) ==
    /\ pc = "SelectMonitor"
    /\ LET choice == upper(strip(line))
           monitor_idx == IntOf(choice) - 1
       IN  IF choice = <<"Q">> THEN ExitMenu(0, <<Event("exiting", pc)>>)
           ELSE IF ~IsInt(choice) THEN Reprompt("invalid_input")
           ELSE IF ~(0 <= monitor_idx /\ monitor_idx < Len(monitors))
           THEN Reprompt("invalid_selection")
           ELSE /\ selected_monitor' = monitor_idx + 1
                /\ show_all' = FALSE
                /\ selected_mode' = NoMode
                /\ log' = <<>>
                /\ IF NoSuitableModes(monitors[monitor_idx + 1], FALSE)
                   THEN pc' = "SelectMonitor" /\ notice' = "no_suitable_modes"
                   ELSE pc' = "SelectMode" /\ notice' = "none"
                /\ UNCHANGED <<prog, monitors, backups, clock, applies, exit_code, connected>>
                /\ UNCHANGED <<rvars, pvars>>

\* display_refresh_rate_menu reads a line; a valid number returns the mode and
\* confirm_switch prints the summary
ModeMenuInput(line) ==
    /\ pc = "SelectMode"
    /\ LET choice == upper(strip(line))
           monitor == monitors[selected_monitor]
           shown == all_modes(monitor, show_all)
           mode_idx == IntOf(choice) - 1
           rest == <<prog, monitors, selected_monitor, backups, clock, applies,
                     exit_code, connected>>
       IN  IF choice = <<"Q">> THEN ExitMenu(0, <<Event("exiting", pc)>>)
           ELSE IF choice = <<"B">>
           THEN /\ pc' = "SelectMonitor" /\ notice' = "none"
                /\ show_all' = FALSE
                /\ UNCHANGED <<selected_mode, log>>
                /\ UNCHANGED rest /\ UNCHANGED <<rvars, pvars>>
           ELSE IF (choice = <<"A">> /\ ~show_all) \/ (choice = <<"T">> /\ show_all)
           THEN /\ IF NoSuitableModes(monitor, ~show_all)
                   THEN /\ pc' = "SelectMonitor" /\ notice' = "no_suitable_modes"
                        /\ show_all' = FALSE
                   ELSE /\ pc' = "SelectMode" /\ notice' = "none"
                        /\ show_all' = ~show_all
                /\ UNCHANGED <<selected_mode, log>>
                /\ UNCHANGED rest /\ UNCHANGED <<rvars, pvars>>
           ELSE IF ~IsInt(choice) THEN Reprompt("invalid_input")
           ELSE IF ~(0 <= mode_idx /\ mode_idx < Len(shown))
           THEN Reprompt("invalid_selection")
           ELSE /\ selected_mode' = shown[mode_idx + 1]
                /\ pc' = "Confirm"
                /\ notice' = "none"
                /\ log' = <<Event("summary", [monitor |-> monitor.id,
                                              mode |-> shown[mode_idx + 1]])>>
                /\ show_all' = FALSE
                /\ UNCHANGED rest /\ UNCHANGED <<rvars, pvars>>

\* apply_configuration(monitor_id, mode): the backup first, then the command
apply_configuration(monitor_id, mode, files, clk, b, dt, s) ==
    LET bk == backup_current_config(files, clk, b, dt)
    IN  [backups |-> bk.backups, clock |-> bk.clock, success |-> (s = "ok"),
         events |-> bk.events \o
                    <<SetEvent(<<Placement(monitor_id, mode_string(mode), TRUE)>>, s)>>]

\* a prompt whose default is yes
Affirmative_default_yes == {<<"y">>, <<"y", "e", "s">>, <<>>}

\* the answers confirm_switch takes for yes and for no
Affirmative == {<<"y">>, <<"y", "e", "s">>}
Negative == {<<"n">>, <<"n", "o">>, <<>>}

\* confirm_switch reads a line; on yes main applies and waits for Enter
ConfirmInput(line, b, dt, s) ==
    /\ pc = "Confirm"
    /\ OnlyAsked(b, dt, s, lower(strip(line)) \in Affirmative,
                 lower(strip(line)) \in Affirmative)
    /\ LET choice == lower(strip(line))
           r == apply_configuration(monitors[selected_monitor].id, selected_mode,
                                    backups, clock, b, dt, s)
       IN  IF choice \in Affirmative
           THEN /\ applies < MaxApplies
                /\ pc' = "Apply"
                /\ notice' = "none"
                /\ applies' = applies + 1
                /\ backups' = r.backups
                /\ clock' = r.clock
                /\ log' = log \o <<Event("answer", choice)>> \o r.events
                /\ monitors' = IF r.success
                               THEN [monitors EXCEPT
                                       ![selected_monitor].current_mode = selected_mode]
                               ELSE monitors
                /\ UNCHANGED <<prog, selected_monitor, show_all, selected_mode,
                               exit_code, connected>>
                /\ UNCHANGED <<rvars, pvars>>
           ELSE IF choice \in Negative
           THEN /\ pc' = "SelectMonitor"
                /\ notice' = "not_applied"
                /\ log' = log \o <<Event("answer", choice)>>
                /\ UNCHANGED <<prog, monitors, selected_monitor, show_all, selected_mode,
                               backups, clock, applies, exit_code, connected>>
                /\ UNCHANGED <<rvars, pvars>>
           ELSE Reprompt("please_yn")

\* "Press Enter to continue": any line goes on with the loop, and the next
\* round starts with a fresh record
ContinueInput(line) ==
    /\ pc = "Apply"
    /\ pc' = "SelectMonitor"
    /\ notice' = "none"
    /\ log' = <<>>
    /\ UNCHANGED <<prog, monitors, selected_monitor, show_all, selected_mode,
                   backups, clock, applies, exit_code, connected>>
    /\ UNCHANGED <<rvars, pvars>>

\* a handler that covers the two menus only
InterruptCaught_menus_only(at) == at \in {"SelectMonitor", "SelectMode"}

\* the prompts at which Ctrl+C ends the program: input() raises
\* KeyboardInterrupt inside the try block of main
InterruptCaught(at) == at \in Prompts

\* Ctrl+C at a prompt
Interrupt ==
    /\ pc \in Prompts
    /\ InterruptCaught(pc)
    /\ ExitMenu(0, <<Event("interrupted", pc)>>)

\* end of input at a prompt: EOFError is caught by "except Exception"
EndOfInput ==
    /\ pc \in Prompts
    /\ ExitMenu(1, <<Event("error", "EOFError")>>)

MenuNext ==
    \/ \E tool_ok \in BOOLEAN, listing \in GdctlOutputs, config_ok \in BOOLEAN,
          summary \in ConfigOutputs :
             /\ ConfigAnswered(listing, config_ok)
             /\ LaunchMenu(tool_ok, listing, config_ok, summary)
    \/ \E line \in InputLines : MonitorMenuInput(line)
    \/ \E line \in InputLines : ModeMenuInput(line)
    \/ \E line \in InputLines, b \in BackupOutcomes, dt \in Elapsed, s \in SetOutcomes :
          ConfirmInput(line, b, dt, s)
    \/ \E line \in InputLines : ContinueInput(line)
    \/ Interrupt
    \/ EndOfInput

(***************************************************************************)
(* The two scripts, run one after the other from one shell                 *)
(***************************************************************************)
\* the process has ended and the shell prompts again; the backup directory is
\* all that is left of the run
ShellPrompt ==
    /\ pc = "Exit"
    /\ pc' = "Shell"
    /\ prog' = [script |-> "none", command |-> ""]
    /\ log' = <<>>
    /\ exit_code' = -1
    /\ connected' = {}
    /\ UNCHANGED <<monitors, selected_monitor, show_all, selected_mode,
                   backups, clock, applies, notice>>
    /\ gdctl_output' = <<>>
    /\ config_output' = <<>>
    /\ parsed' = NoParse
    /\ UNCHANGED rvars

Init ==
    /\ SystemIdle
    /\ ParserIdle
    /\ modes = <<>>
    /\ limit = DefaultLimit
    /\ result = <<>>
    /\ ranked = FALSE

Next == InstantNext \/ MenuNext \/ ShellPrompt

Spec == Init /\ [][Next]_vars

(***************************************************************************)
(* What display_refresh_rate_menu prints                                   *)
(***************************************************************************)
\* a stable descending insertion by pixel count: g goes after every entry
\* whose pixel count is >= its own
RECURSIVE InsertByPixels(_, _)
InsertByPixels(sorted, g) ==
    IF Len(sorted) = 0 THEN <<g>>
    ELSE IF PixelCount(Head(sorted).resolution) >= PixelCount(g.resolution)
         THEN <<Head(sorted)>> \o InsertByPixels(Tail(sorted), g)
         ELSE <<g>> \o sorted

RECURSIVE SortByPixelsDesc(_)
SortByPixelsDesc(groups) ==
    IF Len(groups) = 0 THEN <<>>
    ELSE InsertByPixels(SortByPixelsDesc(SubSeq(groups, 1, Len(groups) - 1)),
                        groups[Len(groups)])

\* a descending sort that turns the order of equal keys around
sorted_resolutions_ties_reversed(top_by_resolution) ==
    SortByPixelsDesc([i \in 1..Len(top_by_resolution) |->
                         top_by_resolution[Len(top_by_resolution) + 1 - i]])

\* sorted(top_by_resolution.keys(), key=pixel count, reverse=True): equal keys
\* keep the order of the dict
sorted_resolutions(top_by_resolution) == SortByPixelsDesc(top_by_resolution)

\* the modes in the order of their printed "[index]" labels; the label of the
\* k-th element is k. Full view: index = len(display_modes) after the append.
\* Top view: the modes of top_modes grouped by resolution in a dict, the
\* resolutions sorted, a running index
printed_modes(monitor, all) ==
    IF all THEN Flatten(get_modes_by_resolution(monitor.modes))
    ELSE LET top_modes == get_top_modes(monitor.modes, DefaultLimit)
             top_by_resolution == GroupModes(top_modes)
         IN  Flatten(sorted_resolutions(top_by_resolution))

(***************************************************************************)
(* Specification of one round of the menu of monitor-switch.py, for        *)
(* displays with many modes: from the shell to the outcome of the first    *)
(* apply                                                                   *)
(***************************************************************************)
Res4K  == Res(3840, 2160)
ResQHD == Res(2560, 1440)
ResFHD == Res(1920, 1080)

\* five resolutions of at least 1280x720, two of them of equal pixel count,
\* in the order the tool lists them: the ranking takes 3 + 2 + 2 + 2 + 2 modes
\* and cuts the list at 10
ManyModes ==
    <<MonitorMode(ResFHD, Rate60), MonitorMode(ResFHD, Rate144),
      MonitorMode(ResTieA, Rate60), MonitorMode(ResTieA, Rate100),
      MonitorMode(Res4K, Rate60), MonitorMode(Res4K, Rate144), MonitorMode(Res4K, Rate100),
      MonitorMode(ResTieB, Rate100), MonitorMode(ResTieB, Rate144),
      MonitorMode(ResQHD, Rate144), MonitorMode(ResQHD, Rate60)>>

\* "gdctl show --modes" for one display with the given modes
ListingOf(ms) ==
    <<SectionLine, HeaderDP2>> \o [i \in 1..Len(ms) |-> ModeLine(TagTee, ms[i])]

RoundListings == {ListingOf(ManyModes), ListingOf(TwoNativeModes), ListingOf(ModesA)}

\* lines typed in the round: every number up to one past the longest list,
\* the letters of the menus, the two answers
RoundLines ==
    {Digits(k) : k \in 0..(Len(ManyModes) + 1)} \cup
    {<<"a">>, <<"t">>, <<"b">>, <<"q">>, <<"x">>, <<"y">>, <<"n">>}

\* in the round the backup works and the second it names has not been used
RoundNext ==
    \/ \E listing \in RoundListings : LaunchMenu(TRUE, listing, TRUE, SummaryTwoMonitors)
    \/ \E line \in RoundLines : MonitorMenuInput(line)
    \/ \E line \in RoundLines : ModeMenuInput(line)
    \/ \E line \in RoundLines, s \in SetOutcomes :
          ConfirmInput(line, "ok", IF lower(strip(line)) \in Affirmative THEN 1 ELSE 0, s)
    \/ Interrupt
    \/ EndOfInput

SpecRound == Init /\ [][RoundNext]_vars

(***************************************************************************)
(* Properties of the ranker                                                *)
(***************************************************************************)
Range(s) == {s[i] : i \in 1..Len(s)}
Count(s, P(_)) == Cardinality({i \in 1..Len(s) : P(s[i])})
ModesOf(s, r) == {i \in 1..Len(s) : s[i].resolution = r}
RetainedResolutions(ms) ==
    {m.resolution : m \in {x \in Range(ms) : PixelCount(x.resolution) >= 1280 * 720}}
MaxRetainedPixels(ms) ==
    CHOOSE p \in {PixelCount(r) : r \in RetainedResolutions(ms)} :
        \A r \in RetainedResolutions(ms) : PixelCount(r) <= p

\* C1: every mode returned by get_top_modes(limit), limit >= 0, has at least
\* 1280*720 pixels, and at most limit modes are returned.
C1_MinPixelsAndLimit ==
    ranked =>
        /\ \A i \in 1..Len(result) : PixelCount(result[i].resolution) >= 1280 * 720
        /\ Len(result) <= limit

\* a call that had to drop a sub-HD mode and to cut the list at the limit
C1_Witness ==
    /\ ranked
    /\ limit > 0
    /\ Len(result) = limit
    /\ Cardinality(RetainedResolutions(modes)) >= 2
    /\ Len(modes) > limit
    /\ \E m \in Range(modes) : PixelCount(m.resolution) < 1280 * 720

\* the modes of resolution r in the result are highest rates of r: a rate of
\* which some mode was left out is not above any rate that was taken
HighestRatesTaken(r) ==
    \A v \in {FloatOf(modes[i].refresh_rate) : i \in ModesOf(modes, r)} :
        LET all   == Cardinality({i \in ModesOf(modes, r) : FloatOf(modes[i].refresh_rate) = v})
            taken == Cardinality({i \in ModesOf(result, r) : FloatOf(result[i].refresh_rate) = v})
        IN  /\ taken <= all
            /\ taken < all =>
                  \A i \in ModesOf(result, r) : FloatOf(result[i].refresh_rate) >= v

\* C2 as stated: at most 3 modes of the native resolution, at most 2 of every
\* other retained resolution, so at most one resolution contributes a third
\* mode; the modes taken from a resolution are its highest refresh rates.
C2_Original ==
    ranked =>
        /\ \A r \in RetainedResolutions(modes) : Cardinality(ModesOf(result, r)) <= 3
        /\ Cardinality({r \in RetainedResolutions(modes) :
                           Cardinality(ModesOf(result, r)) >= 3}) <= 1
        /\ \A r \in RetainedResolutions(modes) : HighestRatesTaken(r)

\* C2 amended: at most 3 modes of each retained resolution whose pixel count
\* equals the highest retained pixel count, at most 2 of every other retained
\* resolution; the modes taken from a resolution are its highest refresh rates.
C2_QuotaPerResolution ==
    ranked =>
        \A r \in RetainedResolutions(modes) :
            /\ Cardinality(ModesOf(result, r)) <=
                  (IF PixelCount(r) = MaxRetainedPixels(modes) THEN 3 ELSE 2)
            /\ HighestRatesTaken(r)

\* a lower resolution with three rates of which exactly the two highest were taken,
\* below a native resolution
C2_Witness ==
    /\ ranked
    /\ \E r \in RetainedResolutions(modes) :
          /\ PixelCount(r) < MaxRetainedPixels(modes)
          /\ Cardinality(ModesOf(modes, r)) = 3
          /\ Cardinality(ModesOf(result, r)) = 2
    /\ \E r \in RetainedResolutions(modes) :
          /\ PixelCount(r) = MaxRetainedPixels(modes)
          /\ Cardinality(ModesOf(result, r)) = 3

\* C3: the returned list has resolution pixel counts non-increasing and, within
\* one resolution, refresh rates non-increasing; a monitor with a single retained
\* resolution offering three distinct rates, ranked with limit 10, gets all
\* three, highest rate first.
SingleResolutionCase ==
    /\ Cardinality(RetainedResolutions(modes)) = 1
    /\ \A r \in RetainedResolutions(modes) :
          /\ Cardinality(ModesOf(modes, r)) = 3
          /\ Cardinality({FloatOf(modes[i].refresh_rate) : i \in ModesOf(modes, r)}) = 3
    /\ limit = 10

C3_Ordering ==
    ranked =>
        /\ \A i, j \in 1..Len(result) :
              i < j =>
                /\ PixelCount(result[i].resolution) >= PixelCount(result[j].resolution)
                /\ result[i].resolution = result[j].resolution =>
                      FloatOf(result[i].refresh_rate) >= FloatOf(result[j].refresh_rate)
        /\ SingleResolutionCase =>
              /\ Len(result) = 3
              /\ \A r \in RetainedResolutions(modes) :
                    {result[i] : i \in 1..3} = {modes[i] : i \in ModesOf(modes, r)}
              /\ FloatOf(result[1].refresh_rate) > FloatOf(result[2].refresh_rate)
              /\ FloatOf(result[2].refresh_rate) > FloatOf(result[3].refresh_rate)

\* the single-resolution case, reported out of rate order and beside a sub-HD mode
C3_Witness ==
    /\ ranked
    /\ SingleResolutionCase
    /\ Len(modes) > 3
    /\ \E i, j \in 1..Len(modes) :
          /\ i < j
          /\ modes[i].resolution = modes[j].resolution
          /\ FloatOf(modes[i].refresh_rate) < FloatOf(modes[j].refresh_rate)

(***************************************************************************)
(* Properties of the backup directory and of the apply paths               *)
(***************************************************************************)
Events(kind) == {i \in 1..Len(log) : log[i].ev = kind}
Min(a, b) == IF a < b THEN a ELSE b

\* C4 as stated: starting from an empty backup directory, after n successive
\* applies, each of which wrote its backup under a new capture time, exactly
\* min(n, 5) backup files remain, and they are the most recently created ones.
C4_Original ==
    clock = applies =>
        /\ Cardinality(backups) = Min(applies, 5)
        /\ backups = {t \in 1..clock : t > clock - 5}

\* C5 as stated: in every apply path a failed backup (the query fails, the
\* directory or the file cannot be written) is reported (as a warning, or as the
\* error text of the tool) and the "gdctl set" command is still invoked afterwards.
C5_Original ==
    \A i \in Events("backup") :
        log[i].arg # "written" =>
            /\ \E j \in Events("warning") \cup Events("error_printed") : j > i
            /\ \E j \in Events("set") : j > i

\* C6: the triple preset, run when at least one of DP-2, DP-3, DP-4 is not
\* connected, reports exactly the missing identifiers, exits non-zero and
\* invokes neither the backup nor "gdctl set".
C6_TripleRefuses ==
    (/\ pc = "Exit"
     /\ prog = [script |-> "gdctl-instant.py", command |-> "triple"]
     /\ ~({"DP-2", "DP-3", "DP-4"} \subseteq connected))
    =>
        /\ log = <<Event("missing_monitors", {"DP-2", "DP-3", "DP-4"} \ connected)>>
        /\ exit_code # 0
        /\ Events("backup") = {} /\ Events("set") = {}

\* the triple preset run with DP-4 alone missing
C6_Witness ==
    /\ pc = "Exit"
    /\ prog = [script |-> "gdctl-instant.py", command |-> "triple"]
    /\ connected = {"DP-2", "DP-3"}
    /\ exit_code = 1
    /\ backups # {}

\* C7: in every apply path a backup attempt of the current configuration comes
\* before the first "gdctl set" of the operation; no "gdctl set" is issued
\* without a preceding backup attempt in the same operation.
C7_BackupBeforeSet ==
    \A i \in Events("set") : \E j \in Events("backup") : j < i

\* "gdctl set" was issued by a single-monitor switch, by a dual preset together
\* with its fallback command, or by an interactive apply
C7_Witness ==
    /\ Events("set") # {}
    /\ \/ prog.command = "DP-4"
       \/ prog.command = "dual" /\ Cardinality(Events("set")) = 2
       \/ prog.script = "monitor-switch.py" /\ pc = "Apply"

\* C8: in the menu loop "gdctl set" is invoked only after Confirm got 'y' or
\* 'yes' for exactly the monitor and mode of the summary; an empty answer, 'n'
\* or 'no' declines: the loop is back at SelectMonitor with no backup and no set.
C8_ExplicitConfirmation ==
    prog.script = "monitor-switch.py" =>
        /\ \A i \in Events("set") :
              /\ i > 2
              /\ log[1].ev = "summary"
              /\ log[2].ev = "answer"
              /\ log[2].arg \in {<<"y">>, <<"y", "e", "s">>}
              /\ log[i].arg.placements =
                    <<Placement(log[1].arg.monitor, mode_string(log[1].arg.mode), TRUE)>>
        /\ (/\ Len(log) > 0
            /\ log[Len(log)].ev = "answer"
            /\ log[Len(log)].arg \in {<<>>, <<"n">>, <<"n", "o">>})
           => /\ pc = "SelectMonitor"
              /\ Events("backup") = {} /\ Events("set") = {}

\* a confirmed change was applied, and an empty answer declined one
C8_Witness ==
    /\ prog.script = "monitor-switch.py"
    /\ \/ pc = "Apply" /\ Events("set") # {} /\ log[2].arg = <<"y", "e", "s">>
       \/ pc = "SelectMonitor" /\ Len(log) = 2 /\ log[2] = Event("answer", <<>>)

\* a step of the menu, on Ctrl+C or on a typed q, that ends the program with
\* status 0 and starts no apply
QuitStep ==
    /\ \/ Interrupt
       \/ \E line \in {<<"q">>, <<" ", "Q">>} :
             \/ MonitorMenuInput(line)
             \/ ModeMenuInput(line)
             \/ ConfirmInput(line, "ok", 0, "ok")
    /\ pc' = "Exit"
    /\ exit_code' = 0
    /\ applies' = applies
    /\ backups' = backups

\* C9: in each of SelectMonitor, SelectMode, Confirm and Apply there is a user
\* input that ends the program at once, through no other state and without
\* invoking the mutating command.
C9_QuitEverywhere == pc \in Prompts => ENABLED QuitStep

\* the program was quit from the Confirm prompt
C9_Witness ==
    /\ pc = "Exit"
    /\ exit_code = 0
    /\ Len(log) > 0
    /\ log[Len(log)] = Event("interrupted", "Confirm")

\* C10 as stated: for every selected monitor with a non-empty mode list
\* SelectMode lets the user toggle between the top view and the full list, so
\* every mode of the monitor is selectable; 'back' returns to SelectMonitor.
C10_Original ==
    /\ (notice = "no_suitable_modes" => Len(monitors[selected_monitor].modes) = 0)
    /\ pc = "SelectMode" =>
          Range(all_modes(monitors[selected_monitor], TRUE)) =
             Range(monitors[selected_monitor].modes)

(***************************************************************************)
(* Properties of the menu loop                                             *)
(***************************************************************************)
\* the messages printed inline for a rejected line
InlineErrors == {"invalid_input", "invalid_selection", "please_yn"}

\* a number typed at a prompt that lists n entries selects one of them
ValidNumber(choice, n) == IsInt(choice) /\ 1 <= IntOf(choice) /\ IntOf(choice) <= n

\* the line is none of the inputs the prompt of the current state offers;
\* shown is the number of modes the current view of SelectMode lists
InvalidLine(line, shown) ==
    \/ /\ pc = "SelectMonitor"
       /\ upper(strip(line)) # <<"Q">>
       /\ ~ValidNumber(upper(strip(line)), Len(monitors))
    \/ /\ pc = "SelectMode"
       /\ upper(strip(line)) \notin {<<"Q">>, <<"B">>}
       /\ ~(upper(strip(line)) = <<"A">> /\ ~show_all)
       /\ ~(upper(strip(line)) = <<"T">> /\ show_all)
       /\ ~ValidNumber(upper(strip(line)), shown)
    \/ /\ pc = "Confirm"
       /\ lower(strip(line)) \notin {<<"y">>, <<"y", "e", "s">>, <<"n">>, <<"n", "o">>, <<>>}

\* the step reads the line at the prompt of the current state and rejects it
\* or acts on it without a backup or a command (the only steps of Confirm that
\* run them are those on y or yes)
ReadsLine(line) ==
    \/ MonitorMenuInput(line)
    \/ ModeMenuInput(line)
    \/ ConfirmInput(line, "ok", 0, "ok")

\* the step printed an inline error and changed nothing else
KeepsState ==
    /\ notice' \in InlineErrors
    /\ pc' = pc
    /\ exit_code' = exit_code
    /\ log' = log
    /\ applies' = applies
    /\ backups' = backups
    /\ monitors' = monitors
    /\ selected_monitor' = selected_monitor
    /\ selected_mode' = selected_mode
    /\ show_all' = show_all

\* C11: an invalid input in any menu (a non-number, an out-of-range number, an
\* unrecognised letter, an answer other than y/yes/n/no/empty at Confirm) is
\* reported inline and leaves the loop in the same state: no exit, no command,
\* the monitor list and the pending selection unchanged. (Every step that is
\* not of that kind reads no invalid line.)
C11_InvalidInputKeepsState ==
    [][\/ pc \notin {"SelectMonitor", "SelectMode", "Confirm"}
       \/ KeepsState
       \/ LET shown == Len(all_modes(monitors[selected_monitor], show_all))
          IN  \A line \in InputLines : ~(InvalidLine(line, shown) /\ ReadsLine(line))]_vars

\* an answer that is neither yes nor no was rejected at Confirm
C11_Witness == pc = "Confirm" /\ notice = "please_yn" /\ selected_mode # NoMode

(***************************************************************************)
(* Properties of the parser                                                *)
(***************************************************************************)
\* no line of the listing holds a monitor header
NoHeader(listing) == \A i \in 1..Len(listing) : HeaderPos(listing[i]) = 0

\* C12: given tool output with no recognizable monitor header, parse_monitors
\* returns an empty list without raising (vendor, product and mode lines before
\* any header are ignored), and the menu program reports that no monitors were
\* detected and exits without entering the menu loop.
C12_NoHeaderNoMenu ==
    (parsed.called /\ NoHeader(gdctl_output)) =>
        /\ ~parsed.raised
        /\ parsed.monitors = <<>>
        /\ prog.script = "monitor-switch.py" =>
              /\ pc = "Exit"
              /\ exit_code = 1
              /\ monitors = <<>>
              /\ Len(log) > 0
              /\ log[Len(log)] = Event("no_monitors_detected", "")

\* the menu was started on a listing with vendor, product and mode lines but no
\* header
C12_Witness ==
    /\ parsed.called
    /\ gdctl_output = VerboseNoHeader
    /\ pc = "Exit"
    /\ log = <<Event("no_monitors_detected", "")>>

\* the lines of the listing that hold a monitor header
HeaderLines(listing) == {i \in 1..Len(listing) : HeaderPos(listing[i]) # 0}

\* the lines of a summary that show a current mode
CurrentModeLines(listing) ==
    {i \in 1..Len(listing) :
        /\ HeaderPos(listing[i]) = 0
        /\ Contains(listing[i], TagEnd)
        /\ Contains(listing[i], <<"@">>)}

\* the line ends with the text of mode m behind the corner of the tree
LineShowsMode(line, m) ==
    /\ Contains(line, TagEnd \o mode_string(m))
    /\ IndexOf(line, TagEnd \o mode_string(m)) + Len(TagEnd \o mode_string(m)) = Len(line) + 1

\* both listings were read, each holds one header, both for the same monitor,
\* and the summary holds one mode line, behind its header
OneMonitorOneCurrentMode ==
    /\ parsed.called
    /\ Cardinality(HeaderLines(gdctl_output)) = 1
    /\ Cardinality(HeaderLines(config_output)) = 1
    /\ \A i \in HeaderLines(gdctl_output), j \in HeaderLines(config_output) :
          HeaderId(gdctl_output[i], HeaderPos(gdctl_output[i])) =
             HeaderId(config_output[j], HeaderPos(config_output[j]))
    /\ Cardinality(CurrentModeLines(config_output)) = 1
    /\ \A j \in HeaderLines(config_output), k \in CurrentModeLines(config_output) : j < k

\* the mode of the one mode line of the summary
SummaryMode ==
    CHOOSE m \in SummaryModes :
        \A k \in CurrentModeLines(config_output) : LineShowsMode(config_output[k], m)

\* C13 as stated: for every verbose listing and summary listing with the same
\* single monitor header, the summary holding one trailing mode line, parsing
\* yields exactly one Monitor whose current mode has the resolution and refresh
\* rate of that line.
C13_Original ==
    OneMonitorOneCurrentMode =>
        /\ Len(parsed.monitors) = 1
        /\ parsed.monitors[1].current_mode = SummaryMode

\* the verbose listing shows the mode of the summary line on a mode line behind
\* the header
ListingShowsSummaryMode ==
    \E i \in HeaderLines(gdctl_output), k \in 1..Len(gdctl_output) :
        /\ i < k
        /\ \/ Contains(gdctl_output[k], TagTee \o mode_string(SummaryMode))
           \/ Contains(gdctl_output[k], TagEnd \o mode_string(SummaryMode))

\* the case of C13 in which the verbose listing itself lists the mode of the
\* summary line for the monitor: also then the current mode can stay absent
\* (violated by a mode line that starts with the vertical bar of the tree)
C13_ListedModeBecomesCurrent ==
    (OneMonitorOneCurrentMode /\ ListingShowsSummaryMode) =>
        /\ Len(parsed.monitors) = 1
        /\ parsed.monitors[1].current_mode = SummaryMode

(***************************************************************************)
(* Properties of the presets and of the command line                       *)
(***************************************************************************)
\* the i-th "gdctl set" of the operation, as an index of the log
NthSet(i) == CHOOSE k \in Events("set") : Cardinality({j \in Events("set") : j <= k}) = i

\* C14: the dual preset invokes "gdctl set" at most twice; the second (fallback)
\* invocation, with the resolution 2560x1080@60.000, happens only when the first
\* one failed, its error text contains "mode" and the external monitor is DP-3;
\* the preset succeeds if and only if the last set it issued succeeded.
C14_DualFallback ==
    (pc = "Exit" /\ prog = [script |-> "gdctl-instant.py", command |-> "dual"]) =>
        /\ Cardinality(Events("set")) <= 2
        /\ Cardinality(Events("set")) = 2 =>
              /\ ~log[NthSet(1)].arg.ok
              /\ log[NthSet(1)].arg.error = "mode"
              /\ log[NthSet(1)].arg.placements[2].monitor = "DP-3"
              /\ log[NthSet(2)].arg.placements =
                    <<Placement("eDP-1", Mode2880x1920at60, FALSE),
                      Placement("DP-3", Mode2560x1080at60, TRUE)>>
        /\ Events("set") # {} =>
              (exit_code = 0 <=> log[NthSet(Cardinality(Events("set")))].arg.ok)

\* the fallback command was run and succeeded
C14_Witness ==
    /\ pc = "Exit"
    /\ prog = [script |-> "gdctl-instant.py", command |-> "dual"]
    /\ Cardinality(Events("set")) = 2
    /\ exit_code = 0

\* a run that printed the usage text or rejected its command token: it has
\* ended with a non-zero status and has started neither a backup nor a set
RefusedRun ==
    /\ pc = "Exit"
    /\ exit_code > 0
    /\ Events("backup") = {}
    /\ Events("set") = {}

\* C15 as stated: each script, run with no arguments, prints a help listing and
\* exits non-zero, and run with an unknown command token exits non-zero; in
\* neither case is "gdctl set" or a backup invoked.
C15_Original ==
    /\ (pc # "Shell" /\ prog.command = "") => (RefusedRun /\ Events("usage") # {})
    /\ (pc # "Shell" /\ prog.command \in {"dp-2", "bogus"}) => RefusedRun

\* C15, amended: gdctl-instant.py, run with no arguments, prints a help listing
\* and exits non-zero, and run with an unknown command token exits non-zero; in
\* neither case is "gdctl set" or a backup invoked. monitor-switch.py, run with
\* no arguments, prints no help listing: it queries the tool and starts the menu.
C15_InstantUsage ==
    /\ (prog.script = "gdctl-instant.py" /\ prog.command = "") =>
          (RefusedRun /\ log = <<Event("usage", connected)>>)
    /\ (prog.script = "gdctl-instant.py" /\ prog.command \in {"dp-2", "bogus"}) =>
          (RefusedRun /\ log = <<Event("unknown_command", prog.command)>>)
    /\ prog.script = "monitor-switch.py" =>
          /\ prog.command = ""
          /\ Events("usage") = {}
          /\ parsed.called \/ log = <<Event("error", "RuntimeError")>>
          /\ parsed.monitors # <<>> => (pc \in Prompts \/ (pc = "Exit" /\ Len(log) > 0))

\* gdctl-instant.py was run with a command token that differs from a monitor
\* identifier in case only, after a run that left a backup
C15_Witness ==
    /\ pc = "Exit"
    /\ prog = [script |-> "gdctl-instant.py", command |-> "dp-2"]
    /\ exit_code = 1
    /\ backups # {}

\* C16: the single-monitor switch never issues a backup or a "gdctl set" for a
\* monitor that is unknown or not in the connected set read from "gdctl show"
\* just before; when that query fails the connected set is empty, so every
\* switch is refused and the command exits non-zero.
C16_SingleSwitchGuard ==
    (pc = "Exit" /\ prog.script = "gdctl-instant.py"
       /\ MainDispatch(prog.command) = "single") =>
        /\ prog.command \notin connected =>
              /\ log = <<Event("not_connected", prog.command)>>
              /\ exit_code = 1
        /\ (Events("backup") # {} \/ Events("set") # {}) =>
              /\ prog.command \in DOMAIN MONITORS
              /\ prog.command \in connected
        /\ \A i \in Events("set") :
              log[i].arg.placements = <<Placement(prog.command, MONITORS[prog.command], TRUE)>>
        /\ \A id \in CommandTokens \ DOMAIN MONITORS, show \in ShowAnswers :
              switch_to_single_monitor(id, main_with_backup, show, backups, clock,
                                       "ok", 0, "ok").events = <<Event("unknown_monitor", id)>>

\* a switch to a monitor that the last listing does not show was refused, and
\* one whose query failed
C16_Witness ==
    /\ pc = "Exit"
    /\ prog = [script |-> "gdctl-instant.py", command |-> "DP-2"]
    /\ connected \in {{"eDP-1"}, {}}
    /\ log = <<Event("not_connected", "DP-2")>>
    /\ exit_code = 1

(***************************************************************************)
(* Backup retention of gdctl-instant.py                                    *)
(***************************************************************************)
\* this run of gdctl-instant.py wrote a backup file
InstantWrote(lg) == \E i \in 1..Len(lg) : lg[i] = Event("backup", "written")

\* C17: after every call of backup_config of gdctl-instant.py that writes a
\* file, at most 5 backup files exist, the file just written (named by the
\* clock of the write) is among them, and every file the call deleted has a
\* modification time not later than that of every file it retained
C17_BackupRetention ==
    [][(pc = "Shell" /\ prog'.script = "gdctl-instant.py" /\ InstantWrote(log'))
          => /\ Cardinality(backups') <= KeepBackups
             /\ clock' \in backups'
             /\ backups' \subseteq backups \cup {clock'}
             /\ \A d \in (backups \cup {clock'}) \ backups' :
                   \A r \in backups' : Mtime(d) <= Mtime(r)]_vars

\* a call wrote the sixth file and deleted the oldest one
C17_Witness ==
    /\ pc = "Exit"
    /\ prog.script = "gdctl-instant.py"
    /\ InstantWrote(log)
    /\ \E i \in 1..Len(log) : log[i].ev = "cleaned_up"
    /\ Cardinality(backups) = KeepBackups
    /\ clock \in backups

(***************************************************************************)
(* current_mode of the monitors of the menu                                *)
(***************************************************************************)
\* the mode is one of the modes of the monitor
Listed(monitor, mode) == \E k \in 1..Len(monitor.modes) : monitor.modes[k] = mode

CurrentModeListed ==
    \A i \in 1..Len(monitors) :
       monitors[i].current_mode = NoMode \/ Listed(monitors[i], monitors[i].current_mode)

\* the last thing the record shows is a "gdctl set" that succeeded
AppliedOk(lg) == Len(lg) > 0 /\ lg[Len(lg)].ev = "set" /\ lg[Len(lg)].arg.ok

\* a step of the menu loop from one prompt to another
CurrentModeStep ==
    (pc \in Prompts /\ pc' \in Prompts)
       => /\ Len(monitors') = Len(monitors)
          /\ \A i \in 1..Len(monitors) :
                /\ monitors'[i].modes = monitors[i].modes
                /\ monitors'[i].id = monitors[i].id
                /\ monitors'[i].current_mode # monitors[i].current_mode
                      => /\ pc = "Confirm" /\ pc' = "Apply"
                         /\ i = selected_monitor
                         /\ AppliedOk(log')
                         /\ monitors'[i].current_mode = selected_mode
          /\ (pc = "Confirm" /\ pc' = "Apply" /\ AppliedOk(log'))
                => monitors'[selected_monitor].current_mode = selected_mode
          /\ (pc = "Confirm" /\ pc' = "Apply" /\ ~AppliedOk(log')) => monitors' = monitors
          /\ (pc = "Confirm" /\ pc' = "SelectMonitor") => monitors' = monitors
          /\ (pc = "SelectMode" /\ pc' = "SelectMonitor") => monitors' = monitors

\* C18: in every state of the menu each monitor's current_mode is absent or
\* one of the modes of its own list; it changes only in the step in which an
\* apply for that monitor succeeded, and then to the applied mode; a failed
\* apply, a declined confirmation and "back" leave every monitor as it was
C18_CurrentMode == []CurrentModeListed /\ [][CurrentModeStep]_vars

\* an apply succeeded for a monitor whose running mode was another one, and
\* the other monitor still has no current mode
C18_Witness ==
    /\ pc = "Apply"
    /\ AppliedOk(log)
    /\ monitors[selected_monitor].current_mode = selected_mode
    /\ parsed.monitors[selected_monitor].current_mode \notin {NoMode, selected_mode}
    /\ \E i \in 1..Len(monitors) : monitors[i].current_mode = NoMode

(***************************************************************************)
(* Numbers of the mode menu                                                *)
(***************************************************************************)
\* the number a line stands for
NumberOf(line) == IntOf(upper(strip(line)))

\* the last entry of the record: the command line of "gdctl set"
LastEvent(lg) == lg[Len(lg)]

\* C19: in both views of SelectMode the mode returned for a valid number i is
\* the mode printed next to index i, also for resolutions of equal pixel count
\* and for a top list cut at the limit; the command of the apply that follows
\* names the selected monitor's id and that mode's resolution@rate
C19_NumberSelectsPrintedMode ==
    [][/\ (pc = "SelectMode" /\ pc' = "Confirm")
             => LET printed == printed_modes(monitors[selected_monitor], show_all)
                IN  \A line \in RoundLines :
                       ModeMenuInput(line)
                          => /\ NumberOf(line) \in 1..Len(printed)
                             /\ selected_mode' = printed[NumberOf(line)]
       /\ (pc = "Confirm" /\ pc' = "Apply")
             => /\ selected_mode' = selected_mode
                /\ LastEvent(log').ev = "set"
                /\ LastEvent(log').arg.placements =
                      <<Placement(monitors[selected_monitor].id,
                                  selected_mode.resolution \o <<"@">> \o
                                     selected_mode.refresh_rate,
                                  TRUE)>>]_vars

\* the top list of the display was cut at the limit, it holds two resolutions
\* of equal pixel count, and its tenth mode was selected and applied
C19_Witness ==
    /\ pc = "Apply"
    /\ AppliedOk(log)
    /\ monitors[selected_monitor].modes = ManyModes
    /\ Len(get_top_modes_untruncated(ManyModes, DefaultLimit)) > DefaultLimit
    /\ selected_mode = get_top_modes(ManyModes, DefaultLimit)[DefaultLimit]
    /\ selected_mode = printed_modes(monitors[selected_monitor], FALSE)[DefaultLimit]
    /\ selected_mode # printed_modes(monitors[selected_monitor], TRUE)[DefaultLimit]
    /\ \E i, j \in 1..DefaultLimit :
          LET top == get_top_modes(ManyModes, DefaultLimit)
          IN  /\ top[i].resolution # top[j].resolution
              /\ PixelCount(top[i].resolution) = PixelCount(top[j].resolution)

====
